---- MODULE Spec2Model ----
(***************************************************************************)
(* Verification model of the qpytorch example repository: the release      *)
(* workflow (.github/workflows/deploy.yml) and the control flow of the     *)
(* tutorial notebooks (data cells, training loops, prediction cells, the   *)
(* DKL epoch loop with its learning-rate schedule and checkpoint).         *)
(*                                                                         *)
(* Three independent state machines share the module:                      *)
(*   SpecDeploy    - one run of the release workflow;                      *)
(*   SpecNotebook  - the execution of one notebook, statement by statement;*)
(*   SpecData      - the data cells (splits, DKL data loader cell).        *)
(* In each specification the variables of the other machines stay idle.    *)
(***************************************************************************)
EXTENDS Integers, Sequences, FiniteSets, TLC

VARIABLES
    \* ---- release workflow ----
    event,        \* last repository event seen: <<name, type>>
    wf,           \* "idle" | "running" : has a run of the workflow been started
    jobStatus,    \* job -> "none"|"pending"|"running"|"success"|"failure"|"cancelled"|"skipped"
    stepIdx,      \* deploy job -> number of its steps that have started
    published,    \* set of registries something was uploaded to
    \* ---- data cells ----
    cell,         \* "input" before a data cell ran, then the name of the cell that ran
    CI,           \* is the environment variable CI present
    fileExists,   \* does the dataset file (.mat) exist on disk
    fileRows,     \* number of rows of the dataset file
    dataset,      \* the DKL notebook's `dataset` string
    downloaded,   \* has urllib.request.urlretrieve been called
    fileRead,     \* has loadmat read the dataset file
    X, y,         \* inputs and targets, as sequences of source-row identities
    train_x, train_y, test_x, test_y,
    loaded,       \* which data the DKL loaders hold
    num_classes,  \* the DKL notebook's num_classes (meaningful once defined)
    defined,      \* names the DKL data cell has bound
    raised,       \* exception that ended the cell, or "none"
    \* ---- notebook execution ----
    nb,           \* the notebook being run
    n_epochs,     \* the DKL notebook's n_epochs
    pc,           \* index of the next statement of the notebook's program
    loops,        \* stack of the loops being executed: [kind, left, head]
    lastOp,       \* the statement executed last
    modelMode,    \* "none" | "new" | "train" | "eval" : mode of the object bound to `model`
    likMode,      \* same for the object bound to `likelihood`
    likChild,     \* is that likelihood a submodule of the model
    iterId,       \* number of loop iterations started so far
    trace,        \* training statements executed in the current loop iteration
    outputTag,    \* iteration whose forward pass produced `output`
    lossTag,      \* iteration whose output `loss` was computed from
    grads,        \* iterations whose backward passes are summed in the .grad fields
    stepGrads,    \* value of grads used by the last optimizer.step()
    version,      \* number of optimizer steps applied to the parameters
    lr,           \* learning rate of each param group, in units of 1e-6
    last_epoch,   \* the scheduler's last_epoch
    milestones,   \* the scheduler's milestones, in quarters of an epoch
    epoch,        \* the DKL epoch loop's `epoch`
    epochLog,     \* phases of the current DKL epoch, in order
    epochStartVersion, \* version when the current DKL epoch began
    state_dict,   \* model.state_dict() as captured (a parameter version)
    likelihood_state_dict,
    checkpoint,   \* contents of dkl_cifar_checkpoint.dat
    \* one call of a model class's forward(self, x)
    cls,          \* the class whose forward runs
    input,        \* the tensor passed as x
    fpc,          \* index of the next statement of the forward body
    env,          \* local variables of the call: name -> value expression
    callees,      \* what the body has called so far
    result        \* the returned expression, <<>> before the return

deployVars == <<event, wf, jobStatus, stepIdx, published>>
dataVars == <<cell, CI, fileExists, fileRows, dataset, downloaded, fileRead, X, y,
              train_x, train_y, test_x, test_y, loaded, num_classes, defined, raised>>

ctlVars == <<nb, n_epochs>>
modeVars == <<modelMode, likMode, likChild>>
gradVars == <<outputTag, lossTag, grads, stepGrads, version>>
schedVars == <<lr, last_epoch, milestones>>
ckptVars == <<state_dict, likelihood_state_dict, checkpoint>>
loopVars == <<loops, iterId, epoch, epochStartVersion>>
nbVars == <<ctlVars, pc, lastOp, trace, epochLog, loopVars, modeVars, gradVars,
            schedVars, ckptVars>>

fwdVars == <<cls, input, fpc, env, callees, result>>

vars == <<deployVars, dataVars, nbVars, fwdVars>>
notDeployVars == <<dataVars, nbVars, fwdVars>>
notDataVars == <<deployVars, nbVars, fwdVars>>
notNbVars == <<deployVars, dataVars, fwdVars>>
notFwdVars == <<deployVars, dataVars, nbVars>>

(***************************************************************************)
(*                    The release workflow (deploy.yml)                    *)
(***************************************************************************)

\* Events the repository can receive (name, activity type); "none" = no type.
Events ==
    { <<"push", "none">>, <<"pull_request", "opened">>,
      <<"release", "created">>, <<"release", "edited">>,
      <<"release", "published">> }

NoEvent == <<"none", "none">>

\* on: release: types: [created]
OnName == "release"
OnTypesBroad == {"created", "edited", "published"}
OnTypes == {"created"}

\* An event starts the workflow iff it matches the `on:` block.
Triggers(e) == e[1] = OnName /\ e[2] \in OnTypes

Jobs == {"run_test_suite", "deploy_pypi", "deploy_conda"}
DeployJobs == {"deploy_pypi", "deploy_conda"}

\* needs: of each job (a job without `if:` runs only if all needs succeeded)
NeedsNothing(j) == {}
Needs(j) == IF j \in DeployJobs THEN {"run_test_suite"} ELSE {}

\* The steps of the two deploy jobs, in file order.
Steps(j) ==
    IF j = "deploy_pypi"
    THEN <<"checkout", "Set up Python", "Install dependencies", "Build and publish">>
    ELSE <<"checkout", "setup-miniconda", "Install dependencies", "Build and publish">>

\* The step whose script uploads (twine upload / conda build with anaconda_upload yes)
PublishStep(j) == 4

Registry(j) == IF j = "deploy_pypi" THEN "PyPI" ELSE "Anaconda"

Finished == {"success", "failure", "cancelled", "skipped"}

DeployIdle ==
    /\ event = NoEvent
    /\ wf = "idle"
    /\ jobStatus = [j \in Jobs |-> "none"]
    /\ stepIdx = [j \in DeployJobs |-> 0]
    /\ published = {}

\* A repository event occurs; a run starts only if the event matches `on:`.
EventOccurs(e) ==
    /\ wf = "idle"
    /\ event' = e
    /\ IF Triggers(e)
       THEN /\ wf' = "running"
            /\ jobStatus' = [j \in Jobs |-> "pending"]
       ELSE UNCHANGED <<wf, jobStatus>>
    /\ UNCHANGED <<stepIdx, published>>
    /\ UNCHANGED notDeployVars

\* run_test_suite has no needs: it starts as soon as the run exists.
TestSuiteStart ==
    /\ wf = "running"
    /\ jobStatus["run_test_suite"] = "pending"
    /\ Needs("run_test_suite") = {}
    /\ jobStatus' = [jobStatus EXCEPT !["run_test_suite"] = "running"]
    /\ UNCHANGED <<event, wf, stepIdx, published>>
    /\ UNCHANGED notDeployVars

\* The called workflow run_test_suite.yml ends in success or failure.
TestSuiteFinish(outcome) ==
    /\ jobStatus["run_test_suite"] = "running"
    /\ outcome \in {"success", "failure"}
    /\ jobStatus' = [jobStatus EXCEPT !["run_test_suite"] = outcome]
    /\ UNCHANGED <<event, wf, stepIdx, published>>
    /\ UNCHANGED notDeployVars

\* A deploy job starts once every job it needs has succeeded.
JobStart(j) ==
    /\ j \in DeployJobs
    /\ jobStatus[j] = "pending"
    /\ \A n \in Needs(j) : jobStatus[n] = "success"
    /\ jobStatus' = [jobStatus EXCEPT ![j] = "running"]
    /\ UNCHANGED <<event, wf, stepIdx, published>>
    /\ UNCHANGED notDeployVars

\* A deploy job is skipped when a needed job ended without success.
JobSkip(j) ==
    /\ j \in DeployJobs
    /\ jobStatus[j] = "pending"
    /\ \E n \in Needs(j) : jobStatus[n] \in Finished \ {"success"}
    /\ jobStatus' = [jobStatus EXCEPT ![j] = "skipped"]
    /\ UNCHANGED <<event, wf, stepIdx, published>>
    /\ UNCHANGED notDeployVars

\* The next step of a running deploy job runs to completion.
StepSucceed(j) ==
    /\ j \in DeployJobs
    /\ jobStatus[j] = "running"
    /\ stepIdx[j] < Len(Steps(j))
    /\ stepIdx' = [stepIdx EXCEPT ![j] = @ + 1]
    /\ published' = IF stepIdx[j] + 1 = PublishStep(j)
                    THEN published \cup {Registry(j)} ELSE published
    /\ jobStatus' = IF stepIdx[j] + 1 = Len(Steps(j))
                    THEN [jobStatus EXCEPT ![j] = "success"] ELSE jobStatus
    /\ UNCHANGED <<event, wf>>
    /\ UNCHANGED notDeployVars

\* The next step fails: the remaining steps do not run.  In the publish
\* step the failing command may come after the upload (anaconda logout).
StepFail(j, uploaded) ==
    /\ j \in DeployJobs
    /\ jobStatus[j] = "running"
    /\ stepIdx[j] < Len(Steps(j))
    /\ uploaded => stepIdx[j] + 1 = PublishStep(j)
    /\ stepIdx' = [stepIdx EXCEPT ![j] = @ + 1]
    /\ published' = IF uploaded THEN published \cup {Registry(j)} ELSE published
    /\ jobStatus' = [jobStatus EXCEPT ![j] = "failure"]
    /\ UNCHANGED <<event, wf>>
    /\ UNCHANGED notDeployVars

\* The run is cancelled: every job that has not finished is cancelled.
CancelRun ==
    /\ wf = "running"
    /\ \E j \in Jobs : jobStatus[j] \notin Finished
    /\ jobStatus' = [j \in Jobs |->
                        IF jobStatus[j] \in Finished THEN jobStatus[j] ELSE "cancelled"]
    /\ UNCHANGED <<event, wf, stepIdx, published>>
    /\ UNCHANGED notDeployVars

(***************************************************************************)
(*                     The data cells of the notebooks                     *)
(***************************************************************************)

\* Largest dataset file considered, in rows.
MaxRows == 9

ElevatorsNotebooks == {"SKIP", "SVQEP", "Modifying", "VNNQEP"}

DatasetNames == {"cifar10", "cifar100", "mnist"}

Min(a, b) == IF a < b THEN a ELSE b

\* Rows 1..n of a dataset, each named by its row number.
Rows(n) == [k \in 1..n |-> k]

\* Python slices s[:n] and s[n:] for n >= 0 (bounds are clamped to the length).
SliceTo(s, n) == SubSeq(s, 1, Min(n, Len(s)))
SliceFrom(s, n) == SubSeq(s, Min(n, Len(s)) + 1, Len(s))

\* int(floor(0.8 * n)).  The double 0.8 is (4 + 2^-52)/5, so for n < 2^50 the
\* rounded product is 4n/5 when 5 divides n and otherwise lies at least 1/5
\* above floor(4n/5): the floor is that of the exact quotient.
FloorEightTenthsUp(n) == (8 * n + 9) \div 10
FloorEightTenths(n) == (8 * n) \div 10

\* int(0.5 * n): the product is exact in binary, int() truncates.
IntHalfUp(n) == (n + 1) \div 2
IntHalf(n) == n \div 2

\* torch.randn(1000, 3) (torch.randn(100, 3) in the VNNQEP notebook)
SmokeRows(nbk) == IF nbk = "VNNQEP" THEN 100 ELSE 1000

\* data[:1000, ...] in the VNNQEP notebook; the others take the whole file
UsedRows(nbk, n) == IF nbk = "VNNQEP" THEN Min(n, 1000) ELSE n

DataIdle ==
    /\ cell = "input"
    /\ CI = FALSE /\ fileExists = FALSE /\ fileRows = 0 /\ dataset = "cifar10"
    /\ downloaded = FALSE /\ fileRead = FALSE
    /\ X = <<>> /\ y = <<>>
    /\ train_x = <<>> /\ train_y = <<>> /\ test_x = <<>> /\ test_y = <<>>
    /\ loaded = "none" /\ num_classes = 0 /\ defined = {} /\ raised = "none"

\* Before a data cell runs: any environment, any file, any `dataset` string.
DataInit ==
    /\ cell = "input"
    /\ CI \in BOOLEAN
    /\ fileExists \in BOOLEAN
    /\ fileRows \in 0..MaxRows
    /\ dataset \in DatasetNames
    /\ downloaded = FALSE /\ fileRead = FALSE
    /\ X = <<>> /\ y = <<>>
    /\ train_x = <<>> /\ train_y = <<>> /\ test_x = <<>> /\ test_y = <<>>
    /\ loaded = "none" /\ num_classes = 0 /\ defined = {} /\ raised = "none"

\* `if not smoke_test and not os.path.isfile('../elevators.mat')`: the guard
\* of the urlretrieve call in the elevators data cells.
DownloadsWheneverMissing(smoke_test, exists) == ~exists
Downloads(smoke_test, exists) == ~smoke_test /\ ~exists

\* `if smoke_test: torch.randn(...) else: loadmat('../elevators.mat')`.
ReadsFile(smoke_test) == ~smoke_test

\* The elevators data cell of the SKIP, SVQEP, Modifying and VNNQEP notebooks.
ElevatorsDataCell(nbk) ==
    /\ cell = "input"
    /\ nbk \in ElevatorsNotebooks
    /\ cell' = nbk
    /\ LET smoke_test == CI
           download == Downloads(smoke_test, fileExists)
           n == IF ReadsFile(smoke_test) THEN UsedRows(nbk, fileRows)
                ELSE SmokeRows(nbk)
           train_n == FloorEightTenths(n)
       IN /\ downloaded' = download
          /\ fileExists' = (fileExists \/ download)
          /\ fileRead' = ReadsFile(smoke_test)
          /\ X' = Rows(n)
          /\ y' = Rows(n)
          /\ train_x' = SliceTo(Rows(n), train_n)
          /\ train_y' = SliceTo(Rows(n), train_n)
          /\ test_x' = SliceFrom(Rows(n), train_n)
          /\ test_y' = SliceFrom(Rows(n), train_n)
    /\ UNCHANGED <<CI, fileRows, dataset, loaded, num_classes, defined, raised>>
    /\ UNCHANGED notDataVars

\* The KeOps notebook's download cell: no CI branch, the file is always read.
KeOpsLoadCell ==
    /\ cell = "input"
    /\ cell' = "KeOps_load"
    /\ downloaded' = ~fileExists
    /\ fileExists' = TRUE
    /\ fileRead' = TRUE
    /\ X' = Rows(fileRows)
    /\ y' = Rows(fileRows)
    /\ UNCHANGED <<CI, fileRows, dataset, train_x, train_y, test_x, test_y,
                   loaded, num_classes, defined, raised>>
    /\ UNCHANGED notDataVars

\* The KeOps notebook's split cell.
KeOpsSplitCell ==
    /\ cell = "KeOps_load"
    /\ cell' = "KeOps"
    /\ LET N == Len(X)
           n_train == IntHalf(N)
       IN /\ train_x' = SliceTo(X, n_train)
          /\ train_y' = SliceTo(y, n_train)
          /\ test_x' = SliceFrom(X, n_train)
          /\ test_y' = SliceFrom(y, n_train)
    /\ UNCHANGED <<CI, fileExists, fileRows, dataset, downloaded, fileRead, X, y,
                   loaded, num_classes, defined, raised>>
    /\ UNCHANGED notDataVars

\* The branch the DKL data cell takes: CI first, then the `dataset` string.
DKLBranchDatasetFirst(ci, ds) ==
    IF ds = "cifar10" THEN "CIFAR10"
    ELSE IF ds = "cifar100" THEN "CIFAR100"
    ELSE IF ci THEN "synthetic"
    ELSE "error"
DKLBranch(ci, ds) ==
    IF ci THEN "synthetic"
    ELSE IF ds = "cifar10" THEN "CIFAR10"
    ELSE IF ds = "cifar100" THEN "CIFAR100"
    ELSE "error"

\* num_classes assigned in each branch of the DKL data cell.
DKLNumClasses(branch) ==
    IF branch = "synthetic" THEN 2
    ELSE IF branch = "CIFAR10" THEN 10
    ELSE 100

\* The DKL notebook's data loader cell.
DKLDataCell ==
    /\ cell = "input"
    /\ cell' = "DKL"
    /\ LET branch == DKLBranch(CI, dataset)
       IN IF branch = "error"
          THEN /\ raised' = "RuntimeError"
               /\ UNCHANGED <<loaded, num_classes, defined, downloaded>>
          ELSE /\ loaded' = branch
               /\ num_classes' = DKLNumClasses(branch)
               /\ defined' = {"train_set", "test_set", "train_loader", "test_loader",
                              "num_classes"}
               /\ downloaded' = (branch # "synthetic")
               /\ UNCHANGED raised
    /\ UNCHANGED <<CI, fileExists, fileRows, dataset, fileRead, X, y,
                   train_x, train_y, test_x, test_y>>
    /\ UNCHANGED notDataVars

DataNext ==
    \/ \E nbk \in ElevatorsNotebooks : ElevatorsDataCell(nbk)
    \/ KeOpsLoadCell
    \/ KeOpsSplitCell
    \/ DKLDataCell

(***************************************************************************)
(*                    Execution of the notebooks                           *)
(*                                                                         *)
(* A notebook is the sequence of its statements that touch the model, the  *)
(* likelihood, the optimizer, the scheduler or the checkpoint, in cell     *)
(* order with function bodies inlined at their calls.  Loops are bracketed *)
(* by "for"/"end".                                                         *)
(***************************************************************************)

\* Bound on the trips of a loop over iterations, epochs or minibatches.
MaxTrips == 2
\* Bound on the DKL notebook's n_epochs.
MaxEpochs == 4

S(o) == [op |-> o, arg |-> ""]
For(kind) == [op |-> "for", arg |-> kind]
End == [op |-> "end", arg |-> ""]
\* Construction of the model; arg tells whether the likelihood becomes its submodule
NewModel(child) == [op |-> "new_model", arg |-> child]

\* zero_grad / forward / loss / backward / step of one training iteration
TrainBody ==
    << S("zero_grad"), S("model(train_x)"), S("loss"), S("backward"), S("step") >>

\* SKIP notebook
ProgSKIP ==
    << S("new_likelihood"), NewModel("child"),
       S("model.train"), S("likelihood.train"), S("new_optimizer"),
       For("iters") >> \o TrainBody \o << End,
       S("model.eval"), S("likelihood.eval"), S("model(test_x)") >>

\* KeOps notebook: only model.eval() before predicting with model.likelihood
ProgKeOpsNoEval ==
    << S("new_likelihood"), NewModel("child"),
       S("model.train"), S("likelihood.train"), S("new_optimizer"),
       For("iters") >> \o TrainBody \o << End,
       S("model(test_x)"), S("likelihood(f)") >>
ProgKeOps ==
    << S("new_likelihood"), NewModel("child"),
       S("model.train"), S("likelihood.train"), S("new_optimizer"),
       For("iters") >> \o TrainBody \o << End,
       S("model.eval"), S("model(test_x)"), S("likelihood(f)") >>

\* Non-Gaussian likelihoods notebook; the last two cells rebind `likelihood`
ProgNonGaussian ==
    << NewModel("nochild"), S("new_likelihood"),
       S("model.train"), S("likelihood.train"), S("new_optimizer"),
       For("iters") >> \o TrainBody \o << End,
       S("model.eval"), S("likelihood.eval"), S("model(test_x)"), S("likelihood(f)"),
       S("new_likelihood"), S("model(test_x)"), S("likelihood(f)"),
       S("new_likelihood"), S("model(test_x)"), S("likelihood(f)") >>

\* SVQEP notebook
ProgSVQEPNoZeroGrad ==
    << NewModel("nochild"), S("new_likelihood"),
       S("model.train"), S("likelihood.train"), S("new_optimizer"),
       For("epochs"), For("batches"),
       S("model(train_x)"), S("loss"), S("backward"), S("step"),
       End, End,
       S("model.eval"), S("likelihood.eval"),
       For("test_batches"), S("model(test_x)"), End >>
ProgSVQEP ==
    << NewModel("nochild"), S("new_likelihood"),
       S("model.train"), S("likelihood.train"), S("new_optimizer"),
       For("epochs"), For("batches") >> \o TrainBody \o << End, End,
       S("model.eval"), S("likelihood.eval"),
       For("test_batches"), S("model(test_x)"), End >>

\* Simple QEP regression (CUDA) notebook
ProgCUDA ==
    << S("new_likelihood"), NewModel("child"),
       S("model.train"), S("likelihood.train"), S("new_optimizer"),
       For("iters") >> \o TrainBody \o << End,
       S("model.eval"), S("likelihood.eval"), S("model(test_x)"), S("likelihood(f)") >>

\* train_and_test_approximate_qep(model_cls) of the Modifying notebook
TrainAndTest ==
    << NewModel("nochild"), S("new_likelihood"), S("new_optimizer"),
       S("model.train"), S("likelihood.train"),
       For("epochs"), For("batches") >> \o TrainBody \o << End, End,
       S("model.eval"), S("likelihood.eval"),
       For("test_batches"), S("model(test_x)"), End >>

\* Modifying notebook: the function is called for four model classes
ProgModifying == TrainAndTest \o TrainAndTest \o TrainAndTest \o TrainAndTest

\* VNNQEP notebook: a prediction cell of the notebook
VNNPredict ==
    << S("model.eval"), S("likelihood.eval"),
       For("test_batches"), S("model(test_x)"), End >>

\* VNNQEP notebook: a training cell
VNNTrain ==
    << S("model.train"), S("likelihood.train"), S("new_optimizer"),
       For("epochs"), For("batches") >> \o TrainBody \o << End, End >>

ProgVNNQEP ==
    << S("new_likelihood"), NewModel("child") >> \o VNNTrain \o VNNPredict \o VNNPredict
    \o << S("new_likelihood"), NewModel("child") >> \o VNNTrain \o VNNPredict

\* DKL notebook: train(epoch)
DKLTrainNoModes ==
    << For("batches") >> \o TrainBody \o << End >>
DKLTrain ==
    << S("model.train"), S("likelihood.train"),
       For("batches") >> \o TrainBody \o << End >>

\* DKL notebook: test()
DKLTest ==
    << S("model.eval"), S("likelihood.eval"),
       For("test_batches"), S("model(test_x)"), S("likelihood(f)"), End >>

\* DKL notebook: the body of the epoch loop
DKLEpochSaveFirst ==
    << S("model.state_dict"), S("likelihood.state_dict"), S("save") >>
    \o DKLTrain \o DKLTest \o << S("scheduler.step") >>
DKLEpoch ==
    DKLTrain \o DKLTest
    \o << S("scheduler.step"),
          S("model.state_dict"), S("likelihood.state_dict"), S("save") >>

ProgDKL ==
    << NewModel("nochild"), S("new_likelihood"),
       S("new_optimizer"), S("new_scheduler"),
       For("n_epochs") >> \o DKLEpoch \o << End >>

Notebooks ==
    {"SKIP", "KeOps", "NonGaussian", "SVQEP", "CUDA", "Modifying", "VNNQEP", "DKL"}

Prog(n) ==
    CASE n = "SKIP" -> ProgSKIP
      [] n = "KeOps" -> ProgKeOps
      [] n = "NonGaussian" -> ProgNonGaussian
      [] n = "SVQEP" -> ProgSVQEP
      [] n = "CUDA" -> ProgCUDA
      [] n = "Modifying" -> ProgModifying
      [] n = "VNNQEP" -> ProgVNNQEP
      [] n = "DKL" -> ProgDKL
      [] OTHER -> << >>

\* lr of each param group as passed to the optimizer, in units of 1e-6
InitialLR(n) ==
    CASE n = "SKIP" -> << 50000 >>
      [] n = "SVQEP" -> << 10000, 10000 >>
      [] n = "VNNQEP" -> << 10000 >>
      [] n = "DKL" -> << 100000, 1000, 100000, 100000 >>
      [] OTHER -> << 100000 >>

\* MultiStepLR(optimizer, milestones=[0.5 * n_epochs, 0.75 * n_epochs], gamma=0.1):
\* the milestones, kept exactly as numbers of quarter epochs
Milestones(n) == << 2 * n, 3 * n >>

\* How many milestones equal the integer epoch e (MultiStepLR keeps a Counter
\* and looks last_epoch up in it; 2 == 2.0 but 1 is not 1.5)
MilestoneHits(ms, e) == Cardinality({k \in 1..Len(ms) : ms[k] = 4 * e})

\* lr * gamma ** hits, gamma = 0.1
RECURSIVE Decay(_, _)
Decay(l, hits) == IF hits = 0 THEN l ELSE Decay(l \div 10, hits - 1)

Stmt == Prog(nb)[pc]
At(o) == pc <= Len(Prog(nb)) /\ Stmt.op = o
Top == loops[Len(loops)]

TrainingOps == {"zero_grad", "model(train_x)", "loss", "backward", "step"}
\* Phases of a DKL epoch: optimizer steps, test predictions, scheduler, save
EpochOps == {"step", "likelihood(f)", "scheduler.step", "save"}
\* Loops whose body is one training iteration
TrainKinds == {"iters", "batches"}

NbIdle ==
    /\ nb = "none" /\ n_epochs = 0 /\ pc = 1 /\ loops = << >> /\ lastOp = "none"
    /\ modelMode = "none" /\ likMode = "none" /\ likChild = FALSE
    /\ iterId = 0 /\ trace = << >>
    /\ outputTag = 0 /\ lossTag = 0 /\ grads = << >> /\ stepGrads = << >> /\ version = 0
    /\ lr = << >> /\ last_epoch = 0 /\ milestones = << >>
    /\ epoch = 0 /\ epochLog = << >> /\ epochStartVersion = 0
    /\ state_dict = 0 /\ likelihood_state_dict = 0
    /\ checkpoint = [model |-> 0, likelihood |-> 0, epoch |-> 0]

\* A fresh kernel about to run one of the notebooks.
NbInit ==
    /\ nb \in Notebooks
    /\ n_epochs \in (IF nb = "DKL" THEN 1..MaxEpochs ELSE {0})
    /\ pc = 1 /\ loops = << >> /\ lastOp = "none"
    /\ modelMode = "none" /\ likMode = "none" /\ likChild = FALSE
    /\ iterId = 0 /\ trace = << >>
    /\ outputTag = 0 /\ lossTag = 0 /\ grads = << >> /\ stepGrads = << >> /\ version = 0
    /\ lr = << >> /\ last_epoch = 0 /\ milestones = << >>
    /\ epoch = 0 /\ epochLog = << >> /\ epochStartVersion = 0
    /\ state_dict = 0 /\ likelihood_state_dict = 0
    /\ checkpoint = [model |-> 0, likelihood |-> 0, epoch |-> 0]

\* Control effect of a statement that is not a loop bracket.
Exec(o) ==
    /\ At(o)
    /\ pc' = pc + 1
    /\ lastOp' = o
    /\ trace' = IF o \in TrainingOps THEN Append(trace, o) ELSE trace
    /\ epochLog' = IF o \in EpochOps /\ nb = "DKL"
                      /\ (epochLog = << >> \/ epochLog[Len(epochLog)] # o)
                   THEN Append(epochLog, o) ELSE epochLog
    /\ UNCHANGED <<ctlVars, loopVars>>
    /\ UNCHANGED notNbVars

\* model = ModelClass(...): a new module is in training mode
NewModelStmt ==
    /\ Exec("new_model")
    /\ modelMode' = "new"
    /\ likChild' = (Stmt.arg = "child")
    /\ grads' = << >>
    /\ UNCHANGED <<likMode, outputTag, lossTag, stepGrads, version, schedVars, ckptVars>>

\* likelihood = SomeLikelihood(...): a new module, not (yet) part of the model
NewLikelihoodStmt ==
    /\ Exec("new_likelihood")
    /\ likMode' = "new"
    /\ likChild' = FALSE
    /\ UNCHANGED <<modelMode, gradVars, schedVars, ckptVars>>

\* model.train() / model.eval(): nn.Module.train(mode) recurses into submodules
ModelSetMode(mode) ==
    /\ mode \in {"train", "eval"}
    /\ Exec(IF mode = "train" THEN "model.train" ELSE "model.eval")
    /\ modelMode' = mode
    /\ likMode' = IF likChild THEN mode ELSE likMode
    /\ UNCHANGED <<likChild, gradVars, schedVars, ckptVars>>

\* likelihood.train() / likelihood.eval()
LikelihoodSetMode(mode) ==
    /\ mode \in {"train", "eval"}
    /\ Exec(IF mode = "train" THEN "likelihood.train" ELSE "likelihood.eval")
    /\ likMode' = mode
    /\ UNCHANGED <<modelMode, likChild, gradVars, schedVars, ckptVars>>

\* optimizer = Adam/SGD(param groups, lr=...)
NewOptimizerStmt ==
    /\ Exec("new_optimizer")
    /\ lr' = InitialLR(nb)
    /\ UNCHANGED <<last_epoch, milestones, modeVars, gradVars, ckptVars>>

\* scheduler = MultiStepLR(optimizer, milestones=[...], gamma=0.1)
NewSchedulerStmt ==
    /\ Exec("new_scheduler")
    /\ milestones' = Milestones(n_epochs)
    /\ last_epoch' = 0
    /\ UNCHANGED <<lr, modeVars, gradVars, ckptVars>>

\* Entering a loop that will make n trips.
ForEnter(n) ==
    /\ At("for")
    /\ n \in (IF Stmt.arg = "n_epochs" THEN {n_epochs} ELSE 1..MaxTrips)
    /\ loops' = Append(loops, [kind |-> Stmt.arg, left |-> n, head |-> pc])
    /\ pc' = pc + 1
    /\ lastOp' = "for"
    /\ iterId' = iterId + 1
    /\ trace' = << >>
    /\ IF Stmt.arg = "n_epochs"
       THEN epoch' = epoch + 1 /\ epochLog' = << >> /\ epochStartVersion' = version
       ELSE UNCHANGED <<epoch, epochLog, epochStartVersion>>
    /\ UNCHANGED <<ctlVars, modeVars, gradVars, schedVars, ckptVars>>
    /\ UNCHANGED notNbVars

\* End of a loop body with trips left: the next iteration begins.
LoopAgain ==
    /\ At("end")
    /\ Top.left > 1
    /\ loops' = [loops EXCEPT ![Len(loops)].left = @ - 1]
    /\ pc' = Top.head + 1
    /\ lastOp' = "for"
    /\ iterId' = iterId + 1
    /\ trace' = << >>
    /\ IF Top.kind = "n_epochs"
       THEN epoch' = epoch + 1 /\ epochLog' = << >> /\ epochStartVersion' = version
       ELSE UNCHANGED <<epoch, epochLog, epochStartVersion>>
    /\ UNCHANGED <<ctlVars, modeVars, gradVars, schedVars, ckptVars>>
    /\ UNCHANGED notNbVars

\* End of the last trip of a loop.
LoopExit ==
    /\ At("end")
    /\ Top.left = 1
    /\ loops' = SubSeq(loops, 1, Len(loops) - 1)
    /\ pc' = pc + 1
    /\ lastOp' = "end"
    /\ UNCHANGED <<iterId, trace, epoch, epochLog, epochStartVersion>>
    /\ UNCHANGED <<ctlVars, modeVars, gradVars, schedVars, ckptVars>>
    /\ UNCHANGED notNbVars

\* optimizer.zero_grad()
ZeroGrad ==
    /\ Exec("zero_grad")
    /\ grads' = << >>
    /\ UNCHANGED <<outputTag, lossTag, stepGrads, version, modeVars, schedVars, ckptVars>>

\* output = model(train_x) / preds = model(test_x)
ModelCall(o) ==
    /\ o \in {"model(train_x)", "model(test_x)"}
    /\ Exec(o)
    /\ outputTag' = iterId
    /\ UNCHANGED <<lossTag, grads, stepGrads, version, modeVars, schedVars, ckptVars>>

\* loss = -mll(output, train_y)
Loss ==
    /\ Exec("loss")
    /\ lossTag' = outputTag
    /\ UNCHANGED <<outputTag, grads, stepGrads, version, modeVars, schedVars, ckptVars>>

\* loss.backward(): the gradients of loss are added to the .grad fields
Backward ==
    /\ Exec("backward")
    /\ grads' = Append(grads, lossTag)
    /\ UNCHANGED <<outputTag, lossTag, stepGrads, version, modeVars, schedVars, ckptVars>>

\* optimizer.step()
OptimizerStep ==
    /\ Exec("step")
    /\ stepGrads' = grads
    /\ version' = version + 1
    /\ UNCHANGED <<outputTag, lossTag, grads, modeVars, schedVars, ckptVars>>

\* likelihood(model(test_x)), after its argument has been evaluated
LikelihoodCall ==
    /\ Exec("likelihood(f)")
    /\ UNCHANGED <<modeVars, gradVars, schedVars, ckptVars>>

\* scheduler.step(): last_epoch += 1; at a milestone every group's lr is
\* multiplied by gamma ** (number of milestones equal to last_epoch)
SchedulerStep ==
    /\ Exec("scheduler.step")
    /\ last_epoch' = last_epoch + 1
    /\ lr' = [g \in 1..Len(lr) |-> Decay(lr[g], MilestoneHits(milestones, last_epoch + 1))]
    /\ UNCHANGED <<milestones, modeVars, gradVars, ckptVars>>

\* state_dict = model.state_dict()
ModelStateDict ==
    /\ Exec("model.state_dict")
    /\ state_dict' = version
    /\ UNCHANGED <<likelihood_state_dict, checkpoint, modeVars, gradVars, schedVars>>

\* likelihood_state_dict = likelihood.state_dict()
LikelihoodStateDict ==
    /\ Exec("likelihood.state_dict")
    /\ likelihood_state_dict' = version
    /\ UNCHANGED <<state_dict, checkpoint, modeVars, gradVars, schedVars>>

\* torch.save({'model': ..., 'likelihood': ...}, 'dkl_cifar_checkpoint.dat')
Save ==
    /\ Exec("save")
    /\ checkpoint' = [model |-> state_dict, likelihood |-> likelihood_state_dict,
                      epoch |-> epoch]
    /\ UNCHANGED <<state_dict, likelihood_state_dict, modeVars, gradVars, schedVars>>

NbNext ==
    \/ NewModelStmt
    \/ NewLikelihoodStmt
    \/ \E mode \in {"train", "eval"} : ModelSetMode(mode)
    \/ \E mode \in {"train", "eval"} : LikelihoodSetMode(mode)
    \/ NewOptimizerStmt
    \/ NewSchedulerStmt
    \/ \E n \in 1..(MaxTrips + MaxEpochs) : ForEnter(n)
    \/ LoopAgain
    \/ LoopExit
    \/ ZeroGrad
    \/ \E o \in {"model(train_x)", "model(test_x)"} : ModelCall(o)
    \/ Loss
    \/ Backward
    \/ OptimizerStep
    \/ LikelihoodCall
    \/ SchedulerStep
    \/ ModelStateDict
    \/ LikelihoodStateDict
    \/ Save

(***************************************************************************)
(*                 The forward methods of the model classes                *)
(*                                                                         *)
(* A forward body is the sequence of its statements.  Values are kept as   *)
(* expressions: <<name>> for a value the body is given (the argument, an   *)
(* attribute, a literal) and <<callee, e1, ..., ek>> for a call, so that   *)
(* what a forward returns records what was evaluated on what.  A nested    *)
(* call in the source is one statement per call, innermost first, through  *)
(* a temporary named after the expression.                                 *)
(***************************************************************************)
Let(lhs, f, args) == [lhs |-> lhs, f |-> f, args |-> args]
ReturnCall(f, args) == [lhs |-> "return", f |-> f, args |-> args]
Return(name) == [lhs |-> "return", f |-> "", args |-> <<name>>]

\* mean_x = mean_module(x); covar_x = covar_module(x);
\* return MultivariateQExponential(mean_x, covar_x, power=self.power)
FwdStandardNoPower ==
    << Let("mean_x", "self.mean_module", <<"x">>),
       Let("covar_x", "self.covar_module", <<"x">>),
       ReturnCall("MultivariateQExponential", <<"mean_x", "covar_x">>) >>
FwdStandard ==
    << Let("mean_x", "self.mean_module", <<"x">>),
       Let("covar_x", "self.covar_module", <<"x">>),
       ReturnCall("MultivariateQExponential", <<"mean_x", "covar_x", "self.power">>) >>

\* QEPClassificationModel binds the distribution to latent_pred first.
FwdLatentPred ==
    << Let("mean_x", "self.mean_module", <<"x">>),
       Let("covar_x", "self.covar_module", <<"x">>),
       Let("latent_pred", "MultivariateQExponential",
           <<"mean_x", "covar_x", "self.power">>),
       Return("latent_pred") >>

\* QExponentialProcessLayer names its locals mean and covar.
FwdQEPLayer ==
    << Let("mean", "self.mean_module", <<"x">>),
       Let("covar", "self.covar_module", <<"x">>),
       ReturnCall("MultivariateQExponential", <<"mean", "covar", "self.power">>) >>

\* QEPRegressionModel (SKIP): the kernel is evaluated on x.mT.unsqueeze(-1),
\* one column per input dimension, and the product over dim -3 is taken.
FwdSKIP ==
    << Let("mean_x", "self.mean_module", <<"x">>),
       Let("x.mT", "mT", <<"x">>),
       Let("x.mT.unsqueeze", "unsqueeze", <<"x.mT", "-1">>),
       Let("univariate_covars", "self.covar_module", <<"x.mT.unsqueeze">>),
       Let("covar_x", "prod", <<"univariate_covars", "dim=-3">>),
       ReturnCall("MultivariateQExponential", <<"mean_x", "covar_x", "self.power">>) >>

\* DenseNetFeatureExtractor
FwdDenseNet ==
    << Let("features", "self.features", <<"x">>),
       Let("out", "F.relu", <<"features", "inplace=True">>),
       Let("avg_pool2d", "F.avg_pool2d", <<"out", "kernel_size=self.avgpool_size">>),
       Let("features.size", "size", <<"features", "0">>),
       Let("out", "view", <<"avg_pool2d", "features.size", "-1">>),
       Return("out") >>

\* DKLModel
FwdDKLModel ==
    << Let("features", "self.feature_extractor", <<"x">>),
       Let("features", "self.scale_to_bounds", <<"features">>),
       Let("features.transpose", "transpose", <<"features", "-1", "-2">>),
       Let("features", "unsqueeze", <<"features.transpose", "-1">>),
       Let("res", "self.qep_layer", <<"features">>),
       Return("res") >>

Classes ==
    { "SKIP.QEPRegressionModel", "KeOps.ExactQEPModel",
      "NonGaussian.QEPClassificationModel", "SVQEP.QEPModel",
      "CUDA.ExactQEPModel", "Modifying.StandardApproximateQEP",
      "Modifying.MeanFieldApproximateQEP", "Modifying.MAPApproximateQEP",
      "Modifying.OrthDecoupledApproximateQEP", "VNNQEP.QEPModel",
      "DKL.DenseNetFeatureExtractor", "DKL.QExponentialProcessLayer",
      "DKL.DKLModel" }

Forward(c) ==
    CASE c = "SKIP.QEPRegressionModel" -> FwdSKIP
      [] c = "NonGaussian.QEPClassificationModel" -> FwdLatentPred
      [] c = "DKL.DenseNetFeatureExtractor" -> FwdDenseNet
      [] c = "DKL.QExponentialProcessLayer" -> FwdQEPLayer
      [] c = "DKL.DKLModel" -> FwdDKLModel
      [] OTHER -> FwdStandard

\* Where a callee of a forward body comes from: "qpytorch" for the
\* distribution class and for an attribute that __init__ binds to a qpytorch
\* object, "torch" for torch.nn.functional and tensor/operator methods,
\* "densenet" for what DenseNetFeatureExtractor inherits from the imported
\* DenseNet, "notebook" for an attribute bound to an instance of a class the
\* notebook itself defines.
Origin(f) ==
    CASE f \in {"self.mean_module", "self.covar_module", "self.scale_to_bounds",
                "MultivariateQExponential"} -> "qpytorch"
      [] f \in {"mT", "unsqueeze", "transpose", "view", "size", "prod",
                "F.relu", "F.avg_pool2d"} -> "torch"
      [] f = "self.features" -> "densenet"
      [] f \in {"self.feature_extractor", "self.qep_layer"} -> "notebook"

\* The tensors the notebooks pass to a model.
Inputs == {"train_x", "test_x", "x_batch"}

\* The value of a name: a local if bound, else the attribute or literal itself.
Eval(a) == IF a \in DOMAIN env THEN env[a] ELSE <<a>>
Apply(f, args) == <<f>> \o [k \in 1..Len(args) |-> Eval(args[k])]

FwdStmt == Forward(cls)[fpc]

FwdIdle ==
    /\ cls = "none" /\ input = "none" /\ fpc = 0
    /\ env = <<>> /\ callees = {} /\ result = <<>>

\* forward(self, x) is entered: x is the only local.
FwdInit ==
    /\ cls \in Classes
    /\ input \in Inputs
    /\ fpc = 1
    /\ env = ("x" :> <<input>>)
    /\ callees = {}
    /\ result = <<>>

\* name = callee(args)
FwdAssign ==
    /\ cls \in Classes /\ result = <<>>
    /\ fpc \in 1..Len(Forward(cls))
    /\ FwdStmt.lhs # "return"
    /\ env' = (FwdStmt.lhs :> Apply(FwdStmt.f, FwdStmt.args)) @@ env
    /\ callees' = callees \cup {FwdStmt.f}
    /\ fpc' = fpc + 1
    /\ UNCHANGED <<cls, input, result>>
    /\ UNCHANGED notFwdVars

\* return callee(args)  or  return name
FwdReturn ==
    /\ cls \in Classes /\ result = <<>>
    /\ fpc \in 1..Len(Forward(cls))
    /\ FwdStmt.lhs = "return"
    /\ IF FwdStmt.f = ""
       THEN /\ result' = Eval(FwdStmt.args[1])
            /\ UNCHANGED callees
       ELSE /\ result' = Apply(FwdStmt.f, FwdStmt.args)
            /\ callees' = callees \cup {FwdStmt.f}
    /\ fpc' = fpc + 1
    /\ UNCHANGED <<cls, input, env>>
    /\ UNCHANGED notFwdVars

FwdNext ==
    \/ FwdAssign
    \/ FwdReturn

DeployNext ==
    \/ \E e \in Events : EventOccurs(e)
    \/ TestSuiteStart
    \/ \E o \in {"success", "failure"} : TestSuiteFinish(o)
    \/ \E j \in DeployJobs : JobStart(j)
    \/ \E j \in DeployJobs : JobSkip(j)
    \/ \E j \in DeployJobs : StepSucceed(j)
    \/ \E j \in DeployJobs, u \in BOOLEAN : StepFail(j, u)
    \/ CancelRun

DeployInit == DeployIdle /\ DataIdle /\ NbIdle /\ FwdIdle

SpecDeploy == DeployInit /\ [][DeployNext]_vars

\* Some step of a deploy job has started (or the job itself has).
DeployStarted(j) == stepIdx[j] > 0 \/ jobStatus[j] \in {"running", "success", "failure"}

\* C1: no step of deploy_pypi or deploy_conda runs unless run_test_suite has
\* completed successfully; if run_test_suite failed or was cancelled, nothing
\* is published to PyPI or Anaconda.
C1_DeployNeedsTests ==
    /\ \A j \in DeployJobs : DeployStarted(j) => jobStatus["run_test_suite"] = "success"
    /\ jobStatus["run_test_suite"] \in {"failure", "cancelled"} => published = {}

C1_Witness ==
    /\ jobStatus["run_test_suite"] = "success"
    /\ published = {"PyPI", "Anaconda"}

\* C2: a release event of type created is the only event that starts the
\* workflow; no other event can lead to a job, a step or an upload.
C2_OnlyReleaseCreated ==
    (wf = "running" \/ published # {} \/ \E j \in DeployJobs : DeployStarted(j))
        => event = <<"release", "created">>

C2_Witness ==
    /\ event = <<"release", "created">>
    /\ "PyPI" \in published

DataSpecInit == DeployIdle /\ DataInit /\ NbIdle /\ FwdIdle

SpecData == DataSpecInit /\ [][DataNext]_vars

Range(s) == {s[k] : k \in 1..Len(s)}

\* C6: the elevators notebooks put the first floor(0.8*N) rows in the training
\* set and all remaining rows in the test set: disjoint, every row exactly
\* once, original order, X and y cut at the same index.
C6_ElevatorsSplit ==
    cell \in ElevatorsNotebooks =>
        /\ 5 * Len(train_x) <= 4 * Len(X) /\ 4 * Len(X) < 5 * (Len(train_x) + 1)
        /\ train_x \o test_x = X
        /\ train_y \o test_y = y
        /\ Range(train_x) \cap Range(test_x) = {}
        /\ Len(train_y) = Len(train_x) /\ Len(test_y) = Len(test_x)
        /\ \A k \in 1..Len(train_x) : train_x[k] = train_y[k]
        /\ \A k \in 1..Len(test_x) : test_x[k] = test_y[k]

C6_Witness ==
    /\ cell \in ElevatorsNotebooks
    /\ Len(X) = 7 /\ Len(train_x) = 5 /\ Len(test_x) = 2

\* C7 (as stated): the KeOps split puts the first floor(N/2) rows in the
\* training set and the rest in the test set, disjoint and covering, and the
\* two sizes are equal for every N.
C7_HalvesEqualForEveryN ==
    cell = "KeOps" =>
        /\ Len(train_x) = Len(X) \div 2
        /\ train_x \o test_x = X
        /\ Range(train_x) \cap Range(test_x) = {}
        /\ Len(test_x) = Len(train_x)

\* C7 (amended): as above, but the sizes are equal exactly when N is even;
\* for odd N the test set holds one row more than the training set.
C7_HalvesSplit ==
    cell = "KeOps" =>
        /\ 2 * Len(train_x) <= Len(X) /\ Len(X) < 2 * (Len(train_x) + 1)
        /\ train_x \o test_x = X
        /\ train_y \o test_y = y
        /\ Range(train_x) \cap Range(test_x) = {}
        /\ Len(test_x) = Len(train_x) + (Len(X) % 2)

C7_Witness ==
    /\ cell = "KeOps"
    /\ Len(X) = 7 /\ Len(train_x) = 3 /\ Len(test_x) = 4

\* C10: in the DKL data cell, with CI absent and `dataset` neither cifar10 nor
\* cifar100 a RuntimeError is raised and neither loader nor num_classes is
\* defined; otherwise num_classes matches the data loaded (2 synthetic, 10
\* cifar10, 100 cifar100), and with CI present `dataset` has no effect.
C10_DKLDataCell ==
    cell = "DKL" =>
        /\ (~CI /\ dataset \notin {"cifar10", "cifar100"})
              => (raised = "RuntimeError" /\ defined = {} /\ loaded = "none")
        /\ (CI \/ dataset \in {"cifar10", "cifar100"})
              => /\ raised = "none"
                 /\ {"train_loader", "test_loader", "num_classes"} \subseteq defined
                 /\ (loaded = "synthetic" => num_classes = 2)
                 /\ (loaded = "CIFAR10" => num_classes = 10)
                 /\ (loaded = "CIFAR100" => num_classes = 100)
                 /\ loaded \in {"synthetic", "CIFAR10", "CIFAR100"}
        /\ (~CI /\ dataset = "cifar10") => loaded = "CIFAR10"
        /\ (~CI /\ dataset = "cifar100") => loaded = "CIFAR100"
        /\ CI => (loaded = "synthetic" /\ num_classes = 2 /\ ~downloaded)

C10_Witness ==
    /\ cell = "DKL"
    /\ CI /\ dataset = "cifar100" /\ loaded = "synthetic"

C10_WitnessError ==
    /\ cell = "DKL"
    /\ raised = "RuntimeError"

NbSpecInit == DeployIdle /\ DataIdle /\ NbInit /\ FwdIdle

SpecNotebook == NbSpecInit /\ [][NbNext]_vars

Count(tr, o) == Cardinality({k \in 1..Len(tr) : tr[k] = o})
Pos(tr, o) == CHOOSE k \in 1..Len(tr) : tr[k] = o
Finished_nb == pc > Len(Prog(nb))
\* Number of `likelihood = ...` statements before the current one
NewLikelihoodsSoFar ==
    Cardinality({k \in 1..(pc - 1) : Prog(nb)[k].op = "new_likelihood"})

\* C3: in every notebook each training iteration (or minibatch) executes
\* exactly one each of zero_grad, forward, loss, backward, step, with zero_grad
\* before backward and backward before step; every optimizer step uses the
\* gradients of the current iteration only.
C3_TrainingIteration ==
    /\ (At("end") /\ Top.kind \in TrainKinds) =>
          /\ \A o \in TrainingOps : Count(trace, o) = 1
          /\ Pos(trace, "zero_grad") < Pos(trace, "backward")
          /\ Pos(trace, "backward") < Pos(trace, "step")
          /\ stepGrads = << iterId >>
    /\ lastOp = "step" => stepGrads = << iterId >>

C3_Witness ==
    /\ nb = "SVQEP"
    /\ At("end") /\ Top.kind = "batches"
    /\ version >= 2
    /\ stepGrads = << iterId >>

\* C4: every optimizer step of every notebook happens while both the model
\* and the likelihood are in train mode, train() having been called on both
\* (in the DKL notebook at the start of every epoch).
C4_StepsInTrainMode ==
    lastOp = "step" => (modelMode = "train" /\ likMode = "train")

C4_Witness ==
    /\ nb = "DKL"
    /\ epoch = 2
    /\ lastOp = "step"
    /\ modelMode = "train" /\ likMode = "train"

\* C5 (as stated): whenever likelihood(model(test_x)) or model(test batch) is
\* evaluated for test predictions, the model and the likelihood object being
\* called are both in eval mode, including in the cells that create a new
\* BernoulliLikelihood or BetaLikelihood.
C5_AllPredictionsEval ==
    /\ lastOp = "model(test_x)" => modelMode = "eval"
    /\ lastOp = "likelihood(f)" => (modelMode = "eval" /\ likMode = "eval")

\* C5 (amended): the model is in eval mode at every test prediction, and the
\* likelihood being called is in eval mode except in the Non-Gaussian
\* notebook's cells that create a new likelihood: that likelihood is called
\* as constructed, eval() never having been called on it.
C5_PredictionsEval ==
    /\ lastOp = "model(test_x)" => modelMode = "eval"
    /\ lastOp = "likelihood(f)" =>
          /\ modelMode = "eval"
          /\ likMode \in {"eval", "new"}
          /\ likMode = "new" => nb = "NonGaussian"
    /\ (lastOp = "likelihood(f)" /\ nb = "NonGaussian" /\ NewLikelihoodsSoFar >= 2)
          => likMode = "new"

C5_Witness ==
    /\ nb = "NonGaussian"
    /\ lastOp = "likelihood(f)"
    /\ modelMode = "eval" /\ likMode = "new"

\* C8: in a DKL run of n_epochs epochs with one scheduler.step() per epoch,
\* every param group's learning rate is multiplied by 0.1 once at the 50%
\* point and once at the 75% point, so the run ends at a hundredth of the
\* initial rates.
C8_LRSchedule ==
    (nb = "DKL" /\ Finished_nb) =>
        \A g \in 1..Len(lr) : 100 * lr[g] = InitialLR("DKL")[g]

\* C9: in every DKL epoch the training pass, the test pass, the scheduler
\* step and the checkpoint save happen in this order; a checkpoint is written
\* at the end of every epoch and always holds the model and likelihood state
\* after the most recently completed epoch.
C9_EpochOrder ==
    nb = "DKL" =>
        /\ (At("end") /\ Top.kind = "n_epochs") =>
              /\ epochLog = << "step", "likelihood(f)", "scheduler.step", "save" >>
              /\ checkpoint = [model |-> version, likelihood |-> version, epoch |-> epoch]
              /\ last_epoch = epoch
        /\ (epoch >= 1 /\ Count(epochLog, "save") = 0) =>
              checkpoint = [model |-> epochStartVersion,
                            likelihood |-> epochStartVersion, epoch |-> epoch - 1]
        /\ Finished_nb =>
              checkpoint = [model |-> version, likelihood |-> version, epoch |-> n_epochs]

C9_Witness ==
    /\ nb = "DKL"
    /\ At("end") /\ Top.kind = "n_epochs"
    /\ epoch = 2
    /\ checkpoint.epoch = 2 /\ checkpoint.model = version /\ version >= 2

\* C11: in an elevators data cell run with the environment variable CI present,
\* urlretrieve is not called and '../elevators.mat' is not read, whether or not
\* the file exists, and X, y are the synthetic torch.randn rows; a cell that
\* did download ran with CI absent.
C11_SmokeTestOffline ==
    cell \in ElevatorsNotebooks =>
        /\ CI => /\ ~downloaded
                 /\ ~fileRead
                 /\ Len(X) = SmokeRows(cell) /\ Len(y) = SmokeRows(cell)
        /\ downloaded => ~CI

\* A smoke-test run of an elevators cell with the file missing.
C11_Witness ==
    /\ cell \in ElevatorsNotebooks
    /\ CI /\ ~fileExists
    /\ ~downloaded /\ ~fileRead
    /\ Len(X) = SmokeRows(cell)

\* A run without CI and without the file: the only case that downloads.
C11_WitnessDownload ==
    /\ cell \in ElevatorsNotebooks
    /\ ~CI /\ downloaded /\ fileRead /\ fileExists

FwdSpecInit == DeployIdle /\ DataIdle /\ NbIdle /\ FwdInit

SpecForward == FwdSpecInit /\ [][FwdNext]_vars

\* The distribution built from the mean and covariance modules' values on e
\* and the model's own power.
MeanCovarOf(e) ==
    << "MultivariateQExponential",
       <<"self.mean_module", e>>, <<"self.covar_module", e>>, <<"self.power">> >>

\* C12 as stated: the forward of every class returns the library distribution
\* of mean_module(x), covar_module(x) and self.power, and calls nothing that
\* the notebook defines.
C12_EveryForwardMeanCovar ==
    result # <<>> =>
        /\ result = MeanCovarOf(<<input>>)
        /\ \A f \in callees : Origin(f) # "notebook"

\* C12: the forward of every class but SKIP's QEPRegressionModel and the DKL
\* notebook's DenseNetFeatureExtractor and DKLModel returns the library
\* distribution of mean_module(x), covar_module(x) and self.power.  SKIP's
\* model evaluates the kernel on x.mT.unsqueeze(-1) and passes the product over
\* dim -3 as the covariance; DenseNetFeatureExtractor returns pooled network
\* features; DKLModel returns what its QEP layer gives on the scaled, transposed
\* features.  Every callee is a qpytorch, torch or densenet component, except
\* that DKLModel calls the notebook's own feature extractor and QEP layer.
C12_ForwardComposes ==
    /\ \A f \in callees :
           \/ Origin(f) \in {"qpytorch", "torch", "densenet"}
           \/ cls = "DKL.DKLModel" /\ Origin(f) = "notebook"
    /\ result # <<>> =>
           CASE cls = "SKIP.QEPRegressionModel" ->
                    result = << "MultivariateQExponential",
                                <<"self.mean_module", <<input>>>>,
                                <<"prod",
                                  <<"self.covar_module",
                                    <<"unsqueeze", <<"mT", <<input>>>>, <<"-1">>>>>>,
                                  <<"dim=-3">>>>,
                                <<"self.power">> >>
             [] cls = "DKL.DenseNetFeatureExtractor" ->
                    LET features == <<"self.features", <<input>>>>
                    IN result = << "view",
                                   <<"F.avg_pool2d",
                                     <<"F.relu", features, <<"inplace=True">>>>,
                                     <<"kernel_size=self.avgpool_size">>>>,
                                   <<"size", features, <<"0">>>>,
                                   <<"-1">> >>
             [] cls = "DKL.DKLModel" ->
                    result = << "self.qep_layer",
                                <<"unsqueeze",
                                  <<"transpose",
                                    <<"self.scale_to_bounds",
                                      <<"self.feature_extractor", <<input>>>>>>,
                                    <<"-1">>, <<"-2">>>>,
                                  <<"-1">>>> >>
             [] OTHER -> result = MeanCovarOf(<<input>>)

\* A mean-and-covariance forward has returned.
C12_Witness ==
    /\ cls = "SVQEP.QEPModel"
    /\ result = MeanCovarOf(<<input>>)
    /\ callees = {"self.mean_module", "self.covar_module", "MultivariateQExponential"}

\* SKIP's forward has returned a distribution whose covariance is a product.
C12_WitnessSKIP ==
    /\ cls = "SKIP.QEPRegressionModel"
    /\ result # <<>>
    /\ "prod" \in callees

\* DKLModel's forward has returned the value of its own QEP layer.
C12_WitnessDKL ==
    /\ cls = "DKL.DKLModel"
    /\ result # <<>>
    /\ "self.qep_layer" \in callees

====
